---------------------------- MODULE Spec2Model ----------------------------
(***************************************************************************)
(* Model of the Bittrex REST client (bittrex.go).                          *)
(*                                                                         *)
(* Every public method builds a request resource by string concatenation,  *)
(* hands it to client.do together with the authentication flag, and        *)
(* decodes the two-layer JSON envelope {success, message, result} that     *)
(* comes back.  Strings are sequences of one-character strings so that     *)
(* strings.ToUpper, fmt.Sprintf("%d") and strconv.FormatFloat are computed *)
(* character by character.  Quantities and rates are counted in units of   *)
(* 10^-8, the precision FormatFloat is asked for.                          *)
(***************************************************************************)
EXTENDS Integers, Sequences, FiniteSets, TLC

VARIABLES
    pc,         \* "idle": no call in progress; "returned": a call has returned
    op,         \* name of the method last called ("none" before any call)
    args,       \* the arguments it was called with
    method,     \* HTTP method handed to client.do
    ressource,  \* resource string handed to client.do
    auth,       \* authNeeded flag handed to client.do
    response,   \* what client.do came back with
    ret,        \* the payload value the method returned
    err         \* the error the method returned

vars == <<pc, op, args, method, ressource, auth, response, ret, err>>

---------------------------------------------------------------------------
(* Bounds of the model *)

\* integer arguments range over 0 +/- Margin and MaxDepth +/- Margin
Margin == 2
\* longest JSON array in a result
MaxItems == 2

(* Constants of the program *)

MaxDepth == 100
MinDepth == 1
MaxCount == 100
MinCount == 1
\* number of decimals asked of strconv.FormatFloat
Precision == 8

---------------------------------------------------------------------------
(* Strings *)

Lower ==
    <<"a","b","c","d","e","f","g","h","i","j","k","l","m",
      "n","o","p","q","r","s","t","u","v","w","x","y","z">>
Upper ==
    <<"A","B","C","D","E","F","G","H","I","J","K","L","M",
      "N","O","P","Q","R","S","T","U","V","W","X","Y","Z">>

ToUpperChar(c) ==
    IF \E i \in 1..Len(Lower) : Lower[i] = c
    THEN Upper[CHOOSE i \in 1..Len(Lower) : Lower[i] = c]
    ELSE c

\* strings.ToUpper
ToUpper(s) == [i \in 1..Len(s) |-> ToUpperChar(s[i])]

DigitChar(d) == <<"0","1","2","3","4","5","6","7","8","9">>[d + 1]

RECURSIVE NatToStr(_)
NatToStr(n) ==
    IF n < 10 THEN <<DigitChar(n)>>
    ELSE NatToStr(n \div 10) \o <<DigitChar(n % 10)>>

\* fmt.Sprintf("%d", n)
Itoa(n) == IF n < 0 THEN <<"-">> \o NatToStr(-n) ELSE NatToStr(n)

RECURSIVE Pow10(_)
Pow10(k) == IF k = 0 THEN 1 ELSE 10 * Pow10(k - 1)

RECURSIVE PadDigits(_, _)
PadDigits(n, width) ==
    IF width = 0 THEN <<>>
    ELSE PadDigits(n \div 10, width - 1) \o <<DigitChar(n % 10)>>

\* strconv.FormatFloat(q, 'f', 8, 64) of the non-negative value q * 10^-8
FormatFloat(q) ==
    NatToStr(q \div Pow10(Precision)) \o <<".">> \o PadDigits(q % Pow10(Precision), Precision)

---------------------------------------------------------------------------
(* Inputs *)

Idents ==
    { <<"b","t","c","-","l","t","c">>,
      <<"B","T","C","-","L","T","C">>,
      <<"a","l","l">>,
      <<"A","l","l">> }

All == <<"a","l","l">>

Cats ==
    { <<"b","u","y">>, <<"s","e","l","l">>, <<"b","o","t","h">>, <<"x">> }

Ints == ((0 - Margin)..Margin) \cup ((MaxDepth - Margin)..(MaxDepth + Margin))

\* 0.00000001 and 1.5
Quantities == {1, 150000000}
\* 0.01
Rates == {1000000}

OrderIDs == { <<"a","b","c","-","1","2","3">> }
Addresses == { <<"1","A","2","b">> }

NoArgs ==
    [ident |-> <<>>, cat |-> <<>>, n |-> 0, quantity |-> 0, rate |-> 0,
     address |-> <<>>, orderID |-> <<>>]

---------------------------------------------------------------------------
(* JSON values of the result field, and what client.do returns *)

Keys == {"uuid", "a", "b"}
\* "bad" is a JSON value of the wrong type for the slot it sits in
Vals == {"s1", "s2", "bad"}
Messages == {"", "INVALID_MARKET"}

EmptyObj == [k \in {} |-> "bad"]

JArrays == UNION {[1..k -> Vals] : k \in 0..MaxItems}
JObjects == UNION {[D -> Vals] : D \in SUBSET Keys}

JValue(kind, items, fields) == [kind |-> kind, items |-> items, fields |-> fields]

Results ==
    {JValue(k, <<>>, EmptyObj) : k \in {"absent", "null", "num"}}
        \cup {JValue("arr", a, EmptyObj) : a \in JArrays}
        \cup {JValue("obj", <<>>, o) : o \in JObjects}

Absent == JValue("absent", <<>>, EmptyObj)

\* "fail": client.do returned an error; "malformed": the bytes are not a
\* JSON envelope; "envelope": a well-formed {success, message, result}
Responses ==
    {[kind |-> k, Success |-> FALSE, Message |-> "", Result |-> Absent] :
        k \in {"fail", "malformed"}}
        \cup [kind : {"envelope"}, Success : BOOLEAN, Message : Messages, Result : Results]

---------------------------------------------------------------------------
(* Errors *)

NilErr == [isNil |-> TRUE, msg |-> ""]
NewError(m) == [isNil |-> FALSE, msg |-> m]

ErrTransport == NewError("transport: request failed")
ErrSyntax == NewError("json: syntax error")
ErrEOF == NewError("unexpected end of JSON input")
ErrType == NewError("json: cannot unmarshal value into Go value")


---------------------------------------------------------------------------
(* encoding/json, as the methods use it *)

RecordFields == {"a", "b"}

\* the zero value of a payload of the given shape
Zero(shape) ==
    CASE shape = "list"   -> <<>>
      [] shape = "record" -> [f \in RecordFields |-> ""]
      [] shape = "map"    -> EmptyObj
      [] shape = "uuid"   -> [Id |-> ""]

Decoded(v, e) == [val |-> v, err |-> e]

\* json.Unmarshal(j, &target) with target the zero value of the shape.
\* A value of the wrong JSON type for its slot is skipped, the rest is
\* decoded as well as it can be, and the type error is returned.
Unmarshal(j, shape) ==
    CASE j.kind = "absent" -> Decoded(Zero(shape), ErrEOF)
      [] j.kind = "null"   -> Decoded(Zero(shape), NilErr)
      [] j.kind = "num"    -> Decoded(Zero(shape), ErrType)
      [] j.kind = "arr" ->
            IF shape = "list"
            THEN Decoded([i \in 1..Len(j.items) |->
                             IF j.items[i] = "bad" THEN "" ELSE j.items[i]],
                         IF \E i \in 1..Len(j.items) : j.items[i] = "bad"
                         THEN ErrType ELSE NilErr)
            ELSE Decoded(Zero(shape), ErrType)
      [] j.kind = "obj" ->
            LET o == j.fields
                has(k) == k \in DOMAIN o /\ o[k] # "bad"
                bad(K) == \E k \in K \cap DOMAIN o : o[k] = "bad"
                status(K) == IF bad(K) THEN ErrType ELSE NilErr
            IN  CASE shape = "list" -> Decoded(Zero(shape), ErrType)
                  [] shape = "record" ->
                        Decoded([f \in RecordFields |-> IF has(f) THEN o[f] ELSE ""],
                                status(RecordFields))
                  [] shape = "map" ->
                        Decoded([k \in DOMAIN o |-> IF has(k) THEN o[k] ELSE ""],
                                status(DOMAIN o))
                  [] shape = "uuid" ->
                        Decoded([Id |-> IF has("uuid") THEN o["uuid"] ELSE ""],
                                status({"uuid"}))

---------------------------------------------------------------------------
(* Response handling *)

handleErr(r) == IF ~r.Success THEN NewError(r.Message) ELSE NilErr

\* the decoding every method but the ones below ends with: the named
\* result stays at its zero value on every early return
Decode(r, shape) ==
    IF r.kind = "fail" THEN Decoded(Zero(shape), ErrTransport)
    ELSE IF r.kind = "malformed" THEN Decoded(Zero(shape), ErrSyntax)
    ELSE IF ~handleErr(r).isNil THEN Decoded(Zero(shape), handleErr(r))
    ELSE Unmarshal(r.Result, shape)

\* DecodeUuid without the assignment uuid = u.Id
DecodeUuid_NoExtract(r) ==
    IF r.kind = "fail" THEN Decoded("", ErrTransport)
    ELSE IF r.kind = "malformed" THEN Decoded("", ErrSyntax)
    ELSE IF ~handleErr(r).isNil THEN Decoded("", handleErr(r))
    ELSE Decoded("", Unmarshal(r.Result, "uuid").err)

\* BuyLimit, BuyMarket, SellLimit, SellMarket, Withdraw: uuid = u.Id
DecodeUuid(r) ==
    IF r.kind = "fail" THEN Decoded("", ErrTransport)
    ELSE IF r.kind = "malformed" THEN Decoded("", ErrSyntax)
    ELSE IF ~handleErr(r).isNil THEN Decoded("", handleErr(r))
    ELSE LET u == Unmarshal(r.Result, "uuid")
         IN  Decoded(u.val.Id, u.err)

\* CancelOrder returns the error only
DecodeCancel(r) ==
    IF r.kind = "fail" THEN Decoded("", ErrTransport)
    ELSE IF r.kind = "malformed" THEN Decoded("", ErrSyntax)
    ELSE Decoded("", handleErr(r))

\* GetOpenOrders decodes the envelope twice and never calls handleErr
DecodeOpenOrders(r) ==
    IF r.kind = "fail" THEN Decoded(Zero("list"), ErrTransport)
    ELSE IF r.kind = "malformed" THEN Decoded(Zero("list"), ErrSyntax)
    ELSE IF r.kind = "malformed" THEN Decoded(Zero("list"), ErrSyntax)
    ELSE Unmarshal(r.Result, "list")

---------------------------------------------------------------------------
(* State *)

Init ==
    /\ pc = "idle"
    /\ op = "none"
    /\ args = NoArgs
    /\ method = ""
    /\ ressource = <<>>
    /\ auth = FALSE
    /\ response = [kind |-> "fail", Success |-> FALSE, Message |-> "", Result |-> Absent]
    /\ ret = ""
    /\ err = NilErr

\* b.client.do(m, res, "", authNeeded) answered with r, and the method
\* returning what it decoded from r
Call(name, a, m, res, authNeeded, r, out) ==
    /\ pc' = "returned"
    /\ op' = name
    /\ args' = a
    /\ method' = m
    /\ ressource' = res
    /\ auth' = authNeeded
    /\ response' = r
    /\ ret' = out.val
    /\ err' = out.err

\* the caller takes the returned values; the client keeps nothing of the call
Return ==
    /\ pc = "returned"
    /\ pc' = "idle"
    /\ op' = "none"
    /\ args' = NoArgs
    /\ method' = ""
    /\ ressource' = <<>>
    /\ auth' = FALSE
    /\ response' = [kind |-> "fail", Success |-> FALSE, Message |-> "", Result |-> Absent]
    /\ ret' = ""
    /\ err' = NilErr


---------------------------------------------------------------------------
(* Public market data *)

GetMarkets ==
    /\ pc = "idle"
    /\ \E r \in Responses :
        Call("GetMarkets", NoArgs, "GET",
            \* "public/getmarkets"
            <<"p","u","b","l","i","c","/","g","e","t","m","a","r","k","e","t","s">>,
            FALSE, r, Decode(r, "list"))

GetTicker ==
    /\ pc = "idle"
    /\ \E market \in Idents, r \in Responses :
        Call("GetTicker", [NoArgs EXCEPT !.ident = market], "GET",
            \* "public/getticker?market="
            <<"p","u","b","l","i","c","/","g","e","t","t","i","c","k","e","r","?","m","a","r","k","e","t","=">>
                \o ToUpper(market),
            FALSE, r, Decode(r, "record"))

GetMarketSummaries ==
    /\ pc = "idle"
    /\ \E r \in Responses :
        Call("GetMarketSummaries", NoArgs, "GET",
            \* "public/getmarketsummaries"
            <<"p","u","b","l","i","c","/","g","e","t","m","a","r","k","e","t","s","u","m","m","a","r","i","e","s">>,
            FALSE, r, Decode(r, "list"))

\* if cat != "buy" && cat != "sell" && cat != "both" { cat = "both" }
NormCat(cat) ==
    IF cat # <<"b","u","y">> /\ cat # <<"s","e","l","l">> /\ cat # <<"b","o","t","h">>
    THEN <<"b","o","t","h">>
    ELSE cat

\* ClampDepth without its lower bound
ClampDepth_NoFloor(depth) ==
    IF depth > MaxDepth THEN MaxDepth ELSE depth

\* if depth > 100 { depth = 100 }; if depth < 1 { depth = 1 }
ClampDepth(depth) ==
    LET d1 == IF depth > MaxDepth THEN MaxDepth ELSE depth
    IN  IF d1 < MinDepth THEN MinDepth ELSE d1

GetOrderBook ==
    /\ pc = "idle"
    /\ \E market \in Idents, cat \in Cats, depth \in Ints, r \in Responses :
        Call("GetOrderBook",
            [NoArgs EXCEPT !.ident = market, !.cat = cat, !.n = depth], "GET",
            \* "public/getorderbook?market="
            <<"p","u","b","l","i","c","/","g","e","t","o","r","d","e","r","b","o","o","k","?","m","a","r","k","e","t","=">>
                \o ToUpper(market) \o
            \* "&type="
            <<"&","t","y","p","e","=">>
                \o NormCat(cat) \o
            \* "&depth="
            <<"&","d","e","p","t","h","=">>
                \o Itoa(ClampDepth(depth)),
            FALSE, r, Decode(r, "record"))

\* if count > 100 { count = 100 }; if count < 1 { count = 1 }
ClampCount(count) ==
    LET c1 == IF count > MaxCount THEN MaxCount ELSE count
    IN  IF c1 < MinCount THEN MinCount ELSE c1

GetMarketHistory ==
    /\ pc = "idle"
    /\ \E market \in Idents, count \in Ints, r \in Responses :
        Call("GetMarketHistory", [NoArgs EXCEPT !.ident = market, !.n = count], "GET",
            \* "public/getmarkethistory?market="
            <<"p","u","b","l","i","c","/","g","e","t","m","a","r","k","e","t","h","i","s","t","o","r","y","?","m","a","r","k","e","t","=">>
                \o ToUpper(market) \o
            \* "&count="
            <<"&","c","o","u","n","t","=">>
                \o Itoa(ClampCount(count)),
            FALSE, r, Decode(r, "list"))

---------------------------------------------------------------------------
(* Market *)

BuyLimit ==
    /\ pc = "idle"
    /\ \E market \in Idents, quantity \in Quantities, rate \in Rates, r \in Responses :
        Call("BuyLimit",
            [NoArgs EXCEPT !.ident = market, !.quantity = quantity, !.rate = rate], "GET",
            \* "market/buylimit?market="
            <<"m","a","r","k","e","t","/","b","u","y","l","i","m","i","t","?","m","a","r","k","e","t","=">>
                \o market \o
            \* "&quantity="
            <<"&","q","u","a","n","t","i","t","y","=">>
                \o FormatFloat(quantity) \o
            \* "&rate="
            <<"&","r","a","t","e","=">>
                \o FormatFloat(rate),
            TRUE, r, DecodeUuid(r))

BuyMarket ==
    /\ pc = "idle"
    /\ \E market \in Idents, quantity \in Quantities, r \in Responses :
        Call("BuyMarket", [NoArgs EXCEPT !.ident = market, !.quantity = quantity], "GET",
            \* "market/buymarket?market="
            <<"m","a","r","k","e","t","/","b","u","y","m","a","r","k","e","t","?","m","a","r","k","e","t","=">>
                \o market \o
            \* "&quantity="
            <<"&","q","u","a","n","t","i","t","y","=">>
                \o FormatFloat(quantity),
            TRUE, r, DecodeUuid(r))

SellLimit ==
    /\ pc = "idle"
    /\ \E market \in Idents, quantity \in Quantities, rate \in Rates, r \in Responses :
        Call("SellLimit",
            [NoArgs EXCEPT !.ident = market, !.quantity = quantity, !.rate = rate], "GET",
            \* "market/selllimit?market="
            <<"m","a","r","k","e","t","/","s","e","l","l","l","i","m","i","t","?","m","a","r","k","e","t","=">>
                \o market \o
            \* "&quantity="
            <<"&","q","u","a","n","t","i","t","y","=">>
                \o FormatFloat(quantity) \o
            \* "&rate="
            <<"&","r","a","t","e","=">>
                \o FormatFloat(rate),
            TRUE, r, DecodeUuid(r))

SellMarket ==
    /\ pc = "idle"
    /\ \E market \in Idents, quantity \in Quantities, r \in Responses :
        Call("SellMarket", [NoArgs EXCEPT !.ident = market, !.quantity = quantity], "GET",
            \* "market/selllimit?market="
            <<"m","a","r","k","e","t","/","s","e","l","l","l","i","m","i","t","?","m","a","r","k","e","t","=">>
                \o market \o
            \* "&quantity="
            <<"&","q","u","a","n","t","i","t","y","=">>
                \o FormatFloat(quantity),
            TRUE, r, DecodeUuid(r))

CancelOrder ==
    /\ pc = "idle"
    /\ \E orderID \in OrderIDs, r \in Responses :
        Call("CancelOrder", [NoArgs EXCEPT !.orderID = orderID], "GET",
            \* "market/cancel?uuid="
            <<"m","a","r","k","e","t","/","c","a","n","c","e","l","?","u","u","i","d","=">>
                \o orderID,
            TRUE, r, DecodeCancel(r))

GetOpenOrders ==
    /\ pc = "idle"
    /\ \E market \in Idents, r \in Responses :
        Call("GetOpenOrders", [NoArgs EXCEPT !.ident = market], "GET",
            \* "market/getopenorders"
            <<"m","a","r","k","e","t","/","g","e","t","o","p","e","n","o","r","d","e","r","s">>
                \o (IF market # All
                    THEN
                         \* "?market="
                         <<"?","m","a","r","k","e","t","=">> \o ToUpper(market)
                    ELSE <<>>),
            TRUE, r, DecodeOpenOrders(r))

---------------------------------------------------------------------------
(* Account *)

\* GetBalances dispatched without authentication
GetBalances_NoAuth ==
    /\ pc = "idle"
    /\ \E r \in Responses :
        Call("GetBalances", NoArgs, "GET",
            \* "account/getbalances"
            <<"a","c","c","o","u","n","t","/","g","e","t","b","a","l","a","n","c","e","s">>,
            FALSE, r, Decode(r, "map"))

GetBalances ==
    /\ pc = "idle"
    /\ \E r \in Responses :
        Call("GetBalances", NoArgs, "GET",
            \* "account/getbalances"
            <<"a","c","c","o","u","n","t","/","g","e","t","b","a","l","a","n","c","e","s">>,
            TRUE, r, Decode(r, "map"))

GetBalance ==
    /\ pc = "idle"
    /\ \E currency \in Idents, r \in Responses :
        Call("GetBalance", [NoArgs EXCEPT !.ident = currency], "GET",
            \* "account/getbalance?currency="
            <<"a","c","c","o","u","n","t","/","g","e","t","b","a","l","a","n","c","e","?","c","u","r","r","e","n","c","y","=">>
                \o ToUpper(currency),
            TRUE, r, Decode(r, "record"))

GetDepositAddress ==
    /\ pc = "idle"
    /\ \E currency \in Idents, r \in Responses :
        Call("GetDepositAddress", [NoArgs EXCEPT !.ident = currency], "GET",
            \* "account/getdepositaddress?currency="
            <<"a","c","c","o","u","n","t","/","g","e","t","d","e","p","o","s","i","t","a","d","d","r","e","s","s","?","c","u","r","r","e","n","c","y","=">>
                \o ToUpper(currency),
            TRUE, r, Decode(r, "record"))

Withdraw ==
    /\ pc = "idle"
    /\ \E address \in Addresses, currency \in Idents, quantity \in Quantities, r \in Responses :
        Call("Withdraw",
            [NoArgs EXCEPT !.address = address, !.ident = currency, !.quantity = quantity], "GET",
            \* "account/withdraw?currency="
            <<"a","c","c","o","u","n","t","/","w","i","t","h","d","r","a","w","?","c","u","r","r","e","n","c","y","=">>
                \o ToUpper(currency) \o
            \* "&quantity="
            <<"&","q","u","a","n","t","i","t","y","=">>
                \o FormatFloat(quantity) \o
            \* "&address="
            <<"&","a","d","d","r","e","s","s","=">>
                \o address,
            TRUE, r, DecodeUuid(r))

\* HistoryRessource with the count clamped the way GetMarketHistory clamps it
HistoryRessource_Clamped(base, key, sel, count) ==
    base
        \o <<"?">>
        \o <<"c","o","u","n","t","=">>
        \o Itoa(IF count > MaxCount THEN MaxCount ELSE IF count < MinCount THEN MinCount ELSE count)
        \o (IF sel # All THEN <<"&">> \o key \o sel ELSE <<>>)

\* ressource := base; "?" if count != 0 || sel != "all"; "count=%d&" if
\* count != 0; key + sel if sel != "all"
HistoryRessource(base, key, sel, count) ==
    base
        \o (IF count # 0 \/ sel # All THEN <<"?">> ELSE <<>>)
        \o (IF count # 0
            THEN <<"c","o","u","n","t","=">> \o Itoa(count) \o <<"&">>
            ELSE <<>>)
        \o (IF sel # All THEN key \o sel ELSE <<>>)

GetOrderHistory ==
    /\ pc = "idle"
    /\ \E market \in Idents, count \in Ints, r \in Responses :
        Call("GetOrderHistory", [NoArgs EXCEPT !.ident = market, !.n = count], "GET",
            HistoryRessource(
                \* "account/getorderhistory"
                <<"a","c","c","o","u","n","t","/","g","e","t","o","r","d","e","r","h","i","s","t","o","r","y">>,
                \* "market="
                <<"m","a","r","k","e","t","=">>,
                market, count),
            TRUE, r, Decode(r, "list"))

GetWithdrawalHistory ==
    /\ pc = "idle"
    /\ \E currency \in Idents, count \in Ints, r \in Responses :
        Call("GetWithdrawalHistory", [NoArgs EXCEPT !.ident = currency, !.n = count], "GET",
            HistoryRessource(
                \* "account/getwithdrawalhistory"
                <<"a","c","c","o","u","n","t","/","g","e","t","w","i","t","h","d","r","a","w","a","l","h","i","s","t","o","r","y">>,
                \* "currency="
                <<"c","u","r","r","e","n","c","y","=">>,
                currency, count),
            TRUE, r, Decode(r, "list"))

GetDepositHistory ==
    /\ pc = "idle"
    /\ \E currency \in Idents, count \in Ints, r \in Responses :
        Call("GetDepositHistory", [NoArgs EXCEPT !.ident = currency, !.n = count], "GET",
            HistoryRessource(
                \* "account/getdeposithistory"
                <<"a","c","c","o","u","n","t","/","g","e","t","d","e","p","o","s","i","t","h","i","s","t","o","r","y">>,
                \* "currency="
                <<"c","u","r","r","e","n","c","y","=">>,
                currency, count),
            TRUE, r, Decode(r, "list"))

---------------------------------------------------------------------------

Next ==
    \/ GetMarkets
    \/ GetTicker
    \/ GetMarketSummaries
    \/ GetOrderBook
    \/ GetMarketHistory
    \/ BuyLimit
    \/ BuyMarket
    \/ SellLimit
    \/ SellMarket
    \/ CancelOrder
    \/ GetOpenOrders
    \/ GetBalances
    \/ GetBalance
    \/ GetDepositAddress
    \/ Withdraw
    \/ GetOrderHistory
    \/ GetWithdrawalHistory
    \/ GetDepositHistory
    \/ Return

Spec == Init /\ [][Next]_vars


---------------------------------------------------------------------------
(* Reading a request resource back: path, query, key=value pairs *)

RECURSIVE Scan(_, _, _)
Scan(s, c, i) ==
    IF i > Len(s) THEN 0
    ELSE IF s[i] = c THEN i
    ELSE Scan(s, c, i + 1)

\* the position of the first c in s, 0 when there is none
FirstIndex(s, c) == Scan(s, c, 1)

Before(s, c) ==
    LET i == FirstIndex(s, c)
    IN  IF i = 0 THEN s ELSE SubSeq(s, 1, i - 1)
After(s, c) ==
    LET i == FirstIndex(s, c)
    IN  IF i = 0 THEN <<>> ELSE SubSeq(s, i + 1, Len(s))

RECURSIVE SplitOn(_, _)
SplitOn(s, c) ==
    LET i == FirstIndex(s, c)
    IN  IF i = 0 THEN <<s>>
        ELSE <<SubSeq(s, 1, i - 1)>> \o SplitOn(SubSeq(s, i + 1, Len(s)), c)

HasQuery(res) == FirstIndex(res, "?") # 0
Path(res) == Before(res, "?")
\* the pieces of the query between '&' separators; none without a '?'
Pairs(res) == IF HasQuery(res) THEN SplitOn(After(res, "?"), "&") ELSE <<>>

\* the pairs of the resource that name the parameter key
PairsOf(res, key) ==
    LET ps == Pairs(res)
    IN  SelectSeq(ps, LAMBDA p : FirstIndex(p, "=") # 0 /\ Before(p, "=") = key)

\* the values the resource gives to the parameter key
ParamValues(res, key) ==
    LET ps == PairsOf(res, key)
    IN  {After(ps[i], "=") : i \in 1..Len(ps)}

\* how many pairs of the resource name the parameter key
ParamCount(res, key) == Len(PairsOf(res, key))

IsDigit(c) == c \in {"0","1","2","3","4","5","6","7","8","9"}
DigitValue(c) == CHOOSE d \in 0..9 : DigitChar(d) = c

RECURSIVE ParseNat(_)
ParseNat(s) ==
    IF Len(s) = 0 THEN 0
    ELSE 10 * ParseNat(SubSeq(s, 1, Len(s) - 1)) + DigitValue(s[Len(s)])

IsInt(s) ==
    LET body == IF Len(s) > 0 /\ s[1] = "-" THEN Tail(s) ELSE s
    IN  Len(body) > 0 /\ \A i \in 1..Len(body) : IsDigit(body[i])

ParseInt(s) == IF s[1] = "-" THEN 0 - ParseNat(Tail(s)) ELSE ParseNat(s)

\* the decimal integers the resource gives to the parameter key
IntValues(res, key) == {ParseInt(v) : v \in {w \in ParamValues(res, key) : IsInt(w)}}

K_market == <<"m","a","r","k","e","t">>
K_currency == <<"c","u","r","r","e","n","c","y">>
K_count == <<"c","o","u","n","t">>
K_depth == <<"d","e","p","t","h">>

PublicOps ==
    {"GetMarkets", "GetTicker", "GetMarketSummaries", "GetOrderBook", "GetMarketHistory"}
AccountOps ==
    {"BuyLimit", "BuyMarket", "SellLimit", "SellMarket", "CancelOrder", "GetOpenOrders",
     "GetBalances", "GetBalance", "GetDepositAddress", "Withdraw", "GetOrderHistory",
     "GetWithdrawalHistory", "GetDepositHistory"}
UuidOps == {"BuyLimit", "BuyMarket", "SellLimit", "SellMarket", "Withdraw"}
AccountHistoryOps == {"GetOrderHistory", "GetWithdrawalHistory", "GetDepositHistory"}
HistoryOps == {"GetMarketHistory"} \cup AccountHistoryOps
SelectorOps == AccountHistoryOps \cup {"GetOpenOrders"}
MandatoryIdentOps ==
    {"GetTicker", "GetOrderBook", "GetMarketHistory", "BuyLimit", "BuyMarket", "SellLimit",
     "SellMarket", "GetBalance", "GetDepositAddress", "Withdraw"}

\* the query parameter that carries a method's market or currency
IdentKey(o) ==
    IF o \in {"GetBalance", "GetDepositAddress", "Withdraw", "GetWithdrawalHistory",
              "GetDepositHistory"}
    THEN K_currency ELSE K_market

\* the value a method's payload has before anything is decoded into it
ZeroRet(o) ==
    CASE o \in {"GetMarkets", "GetMarketSummaries", "GetMarketHistory", "GetOpenOrders"}
            \cup AccountHistoryOps -> <<>>
      [] o \in {"GetTicker", "GetOrderBook", "GetBalance", "GetDepositAddress"} ->
            [f \in RecordFields |-> ""]
      [] o = "GetBalances" -> EmptyObj
      [] OTHER -> ""

\* the clamping law of a written integer w for an argument n
ClampLaw(w, n, lo, hi) ==
    /\ lo <= w /\ w <= hi
    /\ (lo <= n /\ n <= hi) => w = n
    /\ n > hi => w = hi
    /\ n < lo => w = lo

\* the resource names the parameter key once, with a decimal integer that
\* obeys the clamping law for the argument n
WritesClamped(res, key, n, lo, hi) ==
    LET ps == PairsOf(res, key)
    IN  /\ Len(ps) = 1
        /\ IsInt(After(ps[1], "="))
        /\ ClampLaw(ParseInt(After(ps[1], "=")), n, lo, hi)

\* the resource names the parameter key once, with the decimal integer n
WritesVerbatim(res, key, n) ==
    LET ps == PairsOf(res, key)
    IN  /\ Len(ps) = 1
        /\ IsInt(After(ps[1], "="))
        /\ ParseInt(After(ps[1], "=")) = n

---------------------------------------------------------------------------
(* Claims *)

\* C1: whenever the transport returns a well-formed envelope with
\* success == false and message X, the method returns a non-nil error whose
\* message is exactly X, whatever the result field holds.
C1_FailureEnvelopeIsAPIError ==
    (pc = "returned" /\ response.kind = "envelope" /\ ~response.Success)
        => (~err.isNil /\ err.msg = response.Message)

\* C2: every request of an account or market method is dispatched with the
\* authentication flag true, every request of a public market-data method
\* with the flag false.
C2_AuthFlag ==
    pc = "returned" =>
        /\ op \in AccountOps \cup PublicOps
        /\ op \in AccountOps => auth = TRUE
        /\ op \in PublicOps => auth = FALSE

C2_Witness ==
    /\ pc = "returned" /\ op = "GetBalances" /\ auth = TRUE
    /\ Path(ressource) = <<"a","c","c","o","u","n","t","/","g","e","t","b","a","l","a","n","c","e","s">>

\* C3: the depth GetOrderBook writes into the request lies in [1,100] and
\* equals the argument when that lies in [1,100]; larger arguments are
\* written as 100, smaller ones as 1.
C3_DepthClamped ==
    (pc = "returned" /\ op = "GetOrderBook") =>
        WritesClamped(ressource, K_depth, args.n, 1, 100)

C3_Witness ==
    /\ pc = "returned" /\ op = "GetOrderBook"
    /\ args.n > 100
    /\ IntValues(ressource, K_depth) = {100}

\* C4 as stated: the count every history method (GetMarketHistory,
\* GetOrderHistory, GetWithdrawalHistory, GetDepositHistory) writes into the
\* request lies in [1,100] and equals the argument when that lies in [1,100].
C4_CountClamped ==
    (pc = "returned" /\ op \in HistoryOps) =>
        WritesClamped(ressource, K_count, args.n, 1, 100)

\* C4 as amended: GetMarketHistory writes a count that obeys the clamping
\* law; GetOrderHistory, GetWithdrawalHistory and GetDepositHistory do not
\* clamp: they write the argument unchanged when it is not 0 and write no
\* count parameter when it is 0.
C4_CountClampedMarketHistoryOnly ==
    /\ (pc = "returned" /\ op = "GetMarketHistory") =>
            WritesClamped(ressource, K_count, args.n, 1, 100)
    /\ (pc = "returned" /\ op \in AccountHistoryOps) =>
            IF args.n = 0
            THEN ParamCount(ressource, K_count) = 0
            ELSE WritesVerbatim(ressource, K_count, args.n)

C4_Witness ==
    /\ pc = "returned" /\ op = "GetOrderHistory"
    /\ args.n > 100
    /\ IntValues(ressource, K_count) = {args.n}

\* C5: for GetOrderHistory, GetWithdrawalHistory, GetDepositHistory and
\* GetOpenOrders, the selector "all" leaves the request without a market or
\* currency parameter, and any other selector is written uppercased.
C5_SelectorAllOrUppercased ==
    (pc = "returned" /\ op \in SelectorOps) =>
        IF args.ident = All
        THEN /\ ParamCount(ressource, K_market) = 0
             /\ ParamCount(ressource, K_currency) = 0
        ELSE /\ ParamCount(ressource, IdentKey(op)) = 1
             /\ ParamValues(ressource, IdentKey(op)) = {ToUpper(args.ident)}

\* C6: every method with a mandatory market or currency identifier writes
\* the uppercased identifier into the request.
C6_IdentifierUppercased ==
    (pc = "returned" /\ op \in MandatoryIdentOps) =>
        /\ ParamCount(ressource, IdentKey(op)) = 1
        /\ ParamValues(ressource, IdentKey(op)) = {ToUpper(args.ident)}

\* C7: whenever a method returns a non-nil error, the payload it returns
\* with it is the zero value, never a partly decoded one.
C7_AllOrNothing ==
    (pc = "returned" /\ ~err.isNil) => ret = ZeroRet(op)

\* C8: for BuyLimit, BuyMarket, SellLimit, SellMarket and Withdraw, an
\* envelope with success == true and result {uuid: U} makes the method
\* return the string U and a nil error.
C8_UuidExtracted ==
    (/\ pc = "returned" /\ op \in UuidOps
     /\ response.kind = "envelope" /\ response.Success
     /\ response.Result.kind = "obj"
     /\ DOMAIN response.Result.fields = {"uuid"}
     /\ response.Result.fields["uuid"] # "bad")
        => (ret = response.Result.fields["uuid"] /\ err.isNil)

C8_Witness ==
    /\ pc = "returned" /\ op = "BuyLimit"
    /\ response.kind = "envelope" /\ response.Success
    /\ response.Result.kind = "obj"
    /\ DOMAIN response.Result.fields = {"uuid"}
    /\ response.Result.fields["uuid"] = "s2"
    /\ ret = "s2"

\* C9: the request of SellMarket targets a resource path different from
\* the sell-limit endpoint that SellLimit targets.
C9_SellMarketEndpoint ==
    (pc = "returned" /\ op = "SellMarket") =>
        Path(ressource) # <<"m","a","r","k","e","t","/","s","e","l","l","l","i","m","i","t">>

\* C10: for GetOrderHistory, GetWithdrawalHistory and GetDepositHistory the
\* query of the request is a list of key=value pairs joined by single '&':
\* the resource never ends with '?' or '&' and holds no empty pair.
C10_QueryWellFormed ==
    (pc = "returned" /\ op \in AccountHistoryOps) =>
        /\ ressource[Len(ressource)] \notin {"?", "&"}
        /\ \A i \in 1..Len(Pairs(ressource)) :
              /\ Len(Pairs(ressource)[i]) > 0
              /\ FirstIndex(Pairs(ressource)[i], "=") > 1

==========================================================================
